---- MODULE Spec2Model ----
(***************************************************************************)
(* A model of the divergence scoring engine of ib_trading_bot:             *)
(*   ml/addivergencescoring.py   AdDivergenceScoring.score and             *)
(*                               detect_ad_bullish_divergence              *)
(*   strategies/addivergence.py  AdDivergenceStrategy.get_symbols          *)
(*   trading.py                  Trading.init_trade                        *)
(* A data frame is a record of an index kind, the bar dates and a function *)
(* from column names to columns.  Column values are floats: exact          *)
(* rationals, NaN, +inf and -inf, with the IEEE rules pandas/numpy apply.  *)
(* Positions in a column are 0-based as in the source (iloc).              *)
(***************************************************************************)
EXTENDS Integers, Sequences, FiniteSets, TLC

(***************************************************************************)
(* Program constants.                                                      *)
(***************************************************************************)
FastSpan == 50
SlowSpan == 200
RsiWindow == 14
Order == 5
MaxDist == 6
RsiConfirm == 40
RsiLow == 30
RsiHigh == 70
DivergencePoints == 40
TrendPoints == 30
EmaOrderPoints == 10
RsiBandPoints == 20
ScoreThreshold == 60

(***************************************************************************)
(* Bounds of the model.                                                    *)
(***************************************************************************)
\* number of bars of the exhaustively enumerated short frames
MaxShort == 2
\* resolution of the exponentially weighted mean: values are kept to
\* 1/EmaGrid (the source keeps them to the resolution of an IEEE double)
EmaGrid == 1000
\* number of init_trade executions
MaxRuns == 2
\* number of get_historical_data calls, over all executions, that return a frame
MaxData == 3
\* the bars given to save_historical_data are stamped 0 .. 2 * MaxDay + 1,
\* two stamps to a day
MaxDay == 1
\* number of bars of one save_historical_data call
MaxBatch == 2
\* number of get_scanner_results and get_historical_data calls
MaxCalls == 2
\* number of rows or bars the gateway sends for one request
MaxRows == 2
\* number of nextValidId callbacks
MaxNextValidId == 1
\* the max_results given to get_scanner_results
MaxResults == 1

(***************************************************************************)
(* Floats.                                                                 *)
(***************************************************************************)
Abs(x) == IF x < 0 THEN -x ELSE x

Sign(x) == IF x < 0 THEN -1 ELSE IF x > 0 THEN 1 ELSE 0

Min(a, b) == IF a < b THEN a ELSE b

Max(a, b) == IF a < b THEN b ELSE a

RECURSIVE GCD(_, _)
GCD(a, b) == IF b = 0 THEN a ELSE GCD(b, a % b)

\* the rational n/d (d > 0) in lowest terms
Num(n, d) ==
    LET g == GCD(Abs(n), d)
    IN  [t |-> "num", n |-> n \div g, d |-> d \div g]

Fin(x) == [t |-> "num", n |-> x, d |-> 1]

NaN == [t |-> "nan", n |-> 0, d |-> 1]

\* s = 1: +inf, s = -1: -inf
Inf(s) == [t |-> "inf", n |-> s, d |-> 1]

isna(a) == a.t = "nan"

isfinite(a) == a.t = "num"

\* a < b on floats: False as soon as one side is NaN
less(a, b) ==
    IF a.t = "nan" \/ b.t = "nan" THEN FALSE
    ELSE IF a.t = "inf" THEN a.n = -1 /\ ~(b.t = "inf" /\ b.n = -1)
    ELSE IF b.t = "inf" THEN b.n = 1
    ELSE a.n * b.d < b.n * a.d

\* a <= b on floats
less_equal(a, b) ==
    IF a.t = "nan" \/ b.t = "nan" THEN FALSE
    ELSE less(a, b) \/ a = b

neg(a) == IF a.t = "nan" THEN NaN ELSE [a EXCEPT !.n = -a.n]

add(a, b) ==
    IF a.t = "nan" \/ b.t = "nan" THEN NaN
    ELSE IF a.t = "inf" /\ b.t = "inf" THEN (IF a.n = b.n THEN a ELSE NaN)
    ELSE IF a.t = "inf" THEN a
    ELSE IF b.t = "inf" THEN b
    ELSE Num(a.n * b.d + b.n * a.d, a.d * b.d)

sub(a, b) == add(a, neg(b))

mul(a, b) ==
    IF a.t = "nan" \/ b.t = "nan" THEN NaN
    ELSE IF a.t = "inf" \/ b.t = "inf"
         THEN (IF a.n = 0 \/ b.n = 0 THEN NaN ELSE Inf(Sign(a.n) * Sign(b.n)))
    ELSE Num(a.n * b.n, a.d * b.d)

\* float division as numpy does it: x/0 is +-inf, 0/0 is NaN, no exception
div(a, b) ==
    IF a.t = "nan" \/ b.t = "nan" THEN NaN
    ELSE IF a.t = "inf" /\ b.t = "inf" THEN NaN
    ELSE IF a.t = "inf" THEN Inf(IF b.n < 0 THEN -a.n ELSE a.n)
    ELSE IF b.t = "inf" THEN Fin(0)
    ELSE IF b.n = 0 THEN (IF a.n = 0 THEN NaN ELSE Inf(Sign(a.n)))
    ELSE Num(a.n * b.d * Sign(b.n), a.d * Abs(b.n))

(***************************************************************************)
(* Columns and frames.                                                     *)
(***************************************************************************)
BaseColumns == {"open", "high", "low", "close", "volume"}

DerivedColumns == {"EMA50", "EMA200", "RSI", "AD", "price_low", "ad_low"}

nrows(f) == Len(f.date)

has(f, c) == c \in DOMAIN f.cols

\* df[c] = column: adds the column or overwrites it, the others stay
setcol(f, c, column) ==
    [f EXCEPT !.cols = [x \in (DOMAIN f.cols) \cup {c} |->
                            IF x = c THEN column ELSE f.cols[x]]]

\* the (date, open, high, low, close, volume) part of a frame
base(f) ==
    [index |-> f.index, date |-> f.date,
     cols |-> [x \in (DOMAIN f.cols) \cap BaseColumns |-> f.cols[x]]]

\* column.iloc[i]: a negative position counts from the end
iloc_ok(column, i) == -Len(column) <= i /\ i < Len(column)

iloc(column, i) == IF i < 0 THEN column[Len(column) + i + 1] ELSE column[i + 1]

(***************************************************************************)
(* Indicator Builder: score, lines 24-36.                                  *)
(***************************************************************************)
RECURSIVE pow(_, _)
pow(b, e) == IF e = 0 THEN 1 ELSE b * pow(b, e - 1)

\* a finite float in units of 1/EmaGrid
togrid(c) == (c.n * EmaGrid) \div c.d

\* Series.ewm(span=span, adjust=False).mean(): the recursion of pandas' ewm
\* with ignore_na=False and min_periods=0.  st = [seen, w, k]: an observation
\* was met; the weighted mean so far; the NaN met since the last observation
\* (each one ages the old weight by 1-alpha, alpha = 2/(span+1)).
\* ewm_step is one turn of the loop, on the entry c.
\* ewm_step of ewm(com=span): alpha = 1/(span+1)
ewm_step_com(span, st, c) ==
    LET obs == ~isna(c)
        den == pow(span, st.k + 1) + pow(span + 1, st.k)
        num == pow(span + 1, st.k) * (togrid(c) - st.w)
    IN  [seen |-> st.seen \/ obs,
         w |-> IF ~obs THEN st.w
               ELSE IF ~st.seen THEN togrid(c)
               ELSE st.w + ((2 * num + den) \div (2 * den)),
         k |-> IF st.seen /\ ~obs THEN st.k + 1 ELSE 0]

ewm_step(span, st, c) ==
    LET obs == ~isna(c)
        den == pow(span - 1, st.k + 1) + 2 * pow(span + 1, st.k)
        num == 2 * pow(span + 1, st.k) * (togrid(c) - st.w)
    IN  [seen |-> st.seen \/ obs,
         w |-> IF ~obs THEN st.w
               ELSE IF ~st.seen THEN togrid(c)
               ELSE st.w + ((2 * num + den) \div (2 * den)),
         k |-> IF st.seen /\ ~obs THEN st.k + 1 ELSE 0]

\* the loop over the entries lo..hi from the state st, the range halved so
\* that the evaluation stays shallow: [out, st], the means and the last state
RECURSIVE ewm_from(_, _, _, _, _)
ewm_from(close, span, lo, hi, st) ==
    IF lo > hi THEN [out |-> <<>>, st |-> st]
    ELSE IF lo = hi
    THEN LET st2 == ewm_step(span, st, close[lo])
         IN  [out |-> <<IF st2.seen THEN Num(st2.w, EmaGrid) ELSE NaN>>, st |-> st2]
    ELSE LET mid == (lo + hi) \div 2
             left == ewm_from(close, span, lo, mid, st)
             right == ewm_from(close, span, mid + 1, hi, left.st)
         IN  [out |-> left.out \o right.out, st |-> right.st]

ewm_mean(close, span) ==
    ewm_from(close, span, 1, Len(close), [seen |-> FALSE, w |-> 0, k |-> 0]).out

\* Series.diff()
diff(column) ==
    [i \in 1..Len(column) |->
        IF i = 1 THEN NaN ELSE sub(column[i], column[i - 1])]

\* Series.clip(lower=0) and Series.clip(upper=0): NaN stays NaN
clip_lower(column) ==
    [i \in 1..Len(column) |->
        IF less(column[i], Fin(0)) THEN Fin(0) ELSE column[i]]

clip_upper(column) ==
    [i \in 1..Len(column) |->
        IF less(Fin(0), column[i]) THEN Fin(0) ELSE column[i]]

RECURSIVE sum_range(_, _, _)
sum_range(column, lo, hi) ==
    IF lo > hi THEN Fin(0) ELSE add(column[lo], sum_range(column, lo + 1, hi))

\* Series.rolling(window=window).mean(): min_periods is the window, so the
\* mean is NaN until the window is full and whenever it holds a NaN
rolling_mean(column, window) ==
    [i \in 1..Len(column) |->
        IF i < window THEN NaN
        ELSE div(sum_range(column, i - window + 1, i), Fin(window))]

\* lines 26-32
rsi(close) ==
    LET delta == diff(close)
        up == clip_lower(delta)
        dn == clip_upper(delta)
        down == [i \in 1..Len(close) |-> mul(Fin(-1), dn[i])]
        avg_gain == rolling_mean(up, RsiWindow)
        avg_loss == rolling_mean(down, RsiWindow)
    IN  [i \in 1..Len(close) |->
            LET rs == div(avg_gain[i], avg_loss[i])
            IN  sub(Fin(100), div(Fin(100), add(Fin(1), rs)))]

\* Series.cumsum(): a NaN entry gives NaN and is skipped by the running sum.
\* The entries lo..hi from the running sum acc, the range halved so that
\* the evaluation stays shallow: [out, acc]
RECURSIVE cumsum_from(_, _, _, _)
cumsum_from(column, lo, hi, acc) ==
    IF lo > hi THEN [out |-> <<>>, acc |-> acc]
    ELSE IF lo = hi
    THEN (IF isna(column[lo]) THEN [out |-> <<NaN>>, acc |-> acc]
          ELSE LET s == add(acc, column[lo]) IN [out |-> <<s>>, acc |-> s])
    ELSE LET mid == (lo + hi) \div 2
             left == cumsum_from(column, lo, mid, acc)
             right == cumsum_from(column, mid + 1, hi, left.acc)
         IN  [out |-> left.out \o right.out, acc |-> right.acc]

cumsum(column) == cumsum_from(column, 1, Len(column), Fin(0)).out

\* lines 33-36
accumulation_distribution(f) ==
    LET close == f.cols["close"]
        low == f.cols["low"]
        high == f.cols["high"]
        mfv == [i \in 1..nrows(f) |->
                   div(sub(sub(close[i], low[i]), sub(high[i], close[i])),
                       sub(high[i], low[i]))]
        filled == [i \in 1..nrows(f) |-> IF isna(mfv[i]) THEN Fin(0) ELSE mfv[i]]
        mfv_volume == [i \in 1..nrows(f) |-> mul(filled[i], f.cols["volume"][i])]
    IN  cumsum(mfv_volume)

\* indicators with the fast EMA stored over the close column
indicators_over_close(f) ==
    IF ~has(f, "close") THEN [ok |-> FALSE, f |-> f]
    ELSE LET f1 == setcol(f, "close", ewm_mean(f.cols["close"], FastSpan))
             f2 == setcol(f1, "EMA200", ewm_mean(f.cols["close"], SlowSpan))
             f3 == setcol(f2, "RSI", rsi(f.cols["close"]))
         IN  IF ~(has(f, "low") /\ has(f, "high") /\ has(f, "volume"))
             THEN [ok |-> FALSE, f |-> f3]
             ELSE [ok |-> TRUE, f |-> setcol(f3, "AD", accumulation_distribution(f3))]

\* The try block of score, lines 23-40.  A missing column raises KeyError
\* at the line that reads it; the columns assigned before that line stay.
\* ok: the block ended without an exception.
indicators(f) ==
    IF ~has(f, "close") THEN [ok |-> FALSE, f |-> f]
    ELSE LET f1 == setcol(f, "EMA50", ewm_mean(f.cols["close"], FastSpan))
             f2 == setcol(f1, "EMA200", ewm_mean(f.cols["close"], SlowSpan))
             f3 == setcol(f2, "RSI", rsi(f.cols["close"]))
         IN  IF ~(has(f, "low") /\ has(f, "high") /\ has(f, "volume"))
             THEN [ok |-> FALSE, f |-> f3]
             ELSE [ok |-> TRUE, f |-> setcol(f3, "AD", accumulation_distribution(f3))]

(***************************************************************************)
(* Extrema Detector: scipy.signal.argrelextrema(values, np.less,           *)
(* order=order), whose default mode is 'clip': a neighbour position        *)
(* outside the column is replaced by the nearest edge position.            *)
(* The result is the set of 0-based positions.                             *)
(***************************************************************************)
\* argrelextrema with mode='wrap': the column continues with its first
\* entries after its last and with its last entries before its first
argrelextrema_wrap(values, order) ==
    LET n == Len(values)
        at(i) == values[((i + order * n) % n) + 1]
    IN  {i \in 0..(n - 1) :
            \A shift \in 1..order :
                /\ less(at(i), at(i + shift))
                /\ less(at(i), at(i - shift))}

\* argrelextrema comparing only with the neighbours inside the column
argrelextrema_inside(values, order) ==
    LET n == Len(values)
    IN  {i \in 0..(n - 1) :
            \A shift \in 1..order :
                /\ (i + shift <= n - 1) => less(values[i + 1], values[i + shift + 1])
                /\ (i - shift >= 0) => less(values[i + 1], values[i - shift + 1])}

\* argrelextrema with np.less_equal for np.less
argrelextrema_le(values, order) ==
    LET n == Len(values)
        at(i) == values[Max(0, Min(n - 1, i)) + 1]
    IN  {i \in 0..(n - 1) :
            \A shift \in 1..order :
                /\ less_equal(at(i), at(i + shift))
                /\ less_equal(at(i), at(i - shift))}

argrelextrema(values, order) ==
    LET n == Len(values)
        at(i) == values[Max(0, Min(n - 1, i)) + 1]
    IN  {i \in 0..(n - 1) :
            \A shift \in 1..order :
                /\ less(at(i), at(i + shift))
                /\ less(at(i), at(i - shift))}

\* the positions of a set in increasing order
RECURSIVE sorted(_)
sorted(S) ==
    IF S = {} THEN <<>>
    ELSE LET m == CHOOSE x \in S : \A y \in S : x <= y
         IN  <<m>> \o sorted(S \ {m})

\* a column of NaN with the values of another column at the given positions
marked(column, positions) ==
    [i \in 1..Len(column) |-> IF (i - 1) \in positions THEN column[i] ELSE NaN]

\* df.dropna(subset=[c]): the positions of the rows kept
dropna(f, c) == {i \in 0..(nrows(f) - 1) : ~isna(f.cols[c][i + 1])}

(***************************************************************************)
(* Divergence Matcher and Momentum Confirmer:                              *)
(* detect_ad_bullish_divergence, lines 55-97, on the frame self.df.        *)
(* out is "True", "False" or "raise" (an exception leaves the method);     *)
(* f is the frame as the method leaves it.                                 *)
(***************************************************************************)
\* lines 78-80: the row labels are the dates under a DatetimeIndex and the
\* positions under the default RangeIndex, where the difference of labels
\* is a plain integer index that has no attribute days
\* lines 78-80 with the distance counted in bars
ad_candidates_bars(f, ad_lows, p2) ==
    {a \in ad_lows : Abs(a - p2) <= MaxDist}

ad_candidates(f, ad_lows, p2) ==
    {a \in ad_lows : Abs(f.date[a + 1] - f.date[p2 + 1]) <= MaxDist}

\* line 94 written as RSI.iloc[idx-1] >= 40 or RSI.iloc[idx] <= 40 -> False
rsi_confirmation_neg(f, idx) ==
    /\ ~less_equal(Fin(RsiConfirm), iloc(f.cols["RSI"], idx - 1))
    /\ ~less_equal(iloc(f.cols["RSI"], idx), Fin(RsiConfirm))

\* line 94 with or for and
rsi_confirmation_or(f, idx) ==
    \/ less(iloc(f.cols["RSI"], idx - 1), Fin(RsiConfirm))
    \/ less(Fin(RsiConfirm), iloc(f.cols["RSI"], idx))

\* line 94
rsi_confirmation(f, idx) ==
    /\ less(iloc(f.cols["RSI"], idx - 1), Fin(RsiConfirm))
    /\ less(Fin(RsiConfirm), iloc(f.cols["RSI"], idx))

\* line 74, with > for >=
no_lower_low_gt(f, p1, p2) ==
    less(f.cols["price_low"][p1 + 1], f.cols["price_low"][p2 + 1])

\* line 74: p2.price_low >= p1.price_low
no_lower_low(f, p1, p2) ==
    less_equal(f.cols["price_low"][p1 + 1], f.cols["price_low"][p2 + 1])

detect_ad_bullish_divergence(f0) ==
    IF ~(has(f0, "low") /\ has(f0, "AD"))
    THEN [out |-> "raise", f |-> f0]
    ELSE
    LET price_idx == argrelextrema(f0.cols["low"], Order)
        ad_idx == argrelextrema(f0.cols["AD"], Order)
        f1 == setcol(f0, "price_low", marked(f0.cols["low"], price_idx))
        f == setcol(f1, "ad_low", marked(f0.cols["AD"], ad_idx))
        price_lows == dropna(f, "price_low")
        ad_lows == dropna(f, "ad_low")
        pl == sorted(price_lows)
        p1 == pl[Len(pl) - 1]
        p2 == pl[Len(pl)]
        cand == sorted(ad_candidates(f, ad_lows, p2))
        ad1 == cand[Len(cand) - 1]
        ad2 == cand[Len(cand)]
    IN  IF Cardinality(price_lows) < 2 \/ Cardinality(ad_lows) < 2
            THEN [out |-> "False", f |-> f]
        ELSE IF no_lower_low(f, p1, p2)
            THEN [out |-> "False", f |-> f]
        ELSE IF f.index # "datetime"
            THEN [out |-> "raise", f |-> f]
        ELSE IF Len(cand) < 2
            THEN [out |-> "False", f |-> f]
        ELSE IF less_equal(f.cols["ad_low"][ad2 + 1], f.cols["ad_low"][ad1 + 1])
            THEN [out |-> "False", f |-> f]
        ELSE IF ~has(f, "RSI")
            THEN [out |-> "raise", f |-> f]
        ELSE IF ~rsi_confirmation(f, p2)
            THEN [out |-> "False", f |-> f]
        ELSE [out |-> "True", f |-> f]

(***************************************************************************)
(* Input frames.  A bar is <<low, high, close, volume>>; prices are        *)
(* integer-valued floats or NaN, dates are day numbers, strictly           *)
(* increasing.  get_historical_data returns frames with the default        *)
(* RangeIndex ("range"); a caller of score may also pass a frame indexed   *)
(* by date ("datetime").                                                   *)
(***************************************************************************)
frame(index, dates, bars) ==
    [index |-> index, date |-> dates,
     cols |-> [c \in BaseColumns |->
                  [i \in 1..Len(bars) |->
                      CASE c = "low" -> bars[i][1]
                        [] c = "high" -> bars[i][2]
                        [] c = "close" -> bars[i][3]
                        [] c = "open" -> bars[i][3]
                        [] c = "volume" -> bars[i][4]]]]

\* the frame without one of its columns
without(f, c) == [f EXCEPT !.cols = [x \in (DOMAIN f.cols) \ {c} |-> f.cols[x]]]

\* the bars of the short frames: a plain bar, a higher bar, a bar of zero
\* range, bars whose close, low or high is missing
ShortBars ==
    { <<Fin(9), Fin(11), Fin(10), Fin(2)>>,
      <<Fin(11), Fin(13), Fin(13), Fin(1)>>,
      <<Fin(10), Fin(10), Fin(10), Fin(3)>>,
      <<Fin(9), Fin(11), NaN, Fin(2)>>,
      <<NaN, Fin(11), Fin(10), Fin(2)>> }

RECURSIVE BarSeqs(_)
BarSeqs(n) ==
    IF n = 0 THEN {<<>>}
    ELSE {Append(s, b) : s \in BarSeqs(n - 1), b \in ShortBars}

ShortFrames ==
    {frame("range", [i \in 1..Len(bars) |-> i], bars) :
        bars \in UNION {BarSeqs(n) : n \in 0..MaxShort}}

\* The long frames: 22 bars.  The close loses 1 every third bar up to bar
\* 14, gains jump at bar 15 and then follows tail.  The low is a swing low
\* at bar 9 (value low1) and at bar 15 (value 6).  The A/D line falls by 1
\* a bar up to bar 9, rises by v10 at bar 10 and by 1 at bars 11 and 12,
\* falls by 1 a bar up to bar 15 and rises by 1 a bar after it.  gap days
\* without a bar lie between bars 11 and 12.
Tails ==
    { <<1, 1, 1, 1, 1, 1>>, <<0, 0, 0, 0, 0, 0>>, <<-1, -1, -1, -1, -1, -1>>,
      <<6, -3, 6, -3, 6, -4>>, <<1, 1, 1, -1, 0, 0>>, <<1, -1, -1, -1, -1, -1>>,
      <<8, 8, 8, -8, -8, -9>> }

RECURSIVE tail_sum(_, _)
tail_sum(tail, k) == IF k <= 0 THEN 0 ELSE tail[k] + tail_sum(tail, k - 1)

long_close(i, jump, tail) ==
    14 - (Min(i, 14) \div 3) + (IF i >= 15 THEN jump ELSE 0) + tail_sum(tail, i - 15)

long_bar(i, low1, jump, v10, tail) ==
    LET c == long_close(i, jump, tail)
    IN  IF i = 9 THEN <<Fin(low1), Fin(4 * c - 3 * low1), Fin(c), Fin(2)>>
        ELSE IF i = 15 THEN <<Fin(6), Fin(4 * c - 18), Fin(c), Fin(2)>>
        ELSE IF i = 10 THEN <<Fin(c - 2), Fin(c), Fin(c), Fin(v10)>>
        ELSE IF i \in {11, 12} \/ i > 15 THEN <<Fin(c - 2), Fin(c), Fin(c), Fin(1)>>
        ELSE <<Fin(c), Fin(c + 2), Fin(c), Fin(1)>>

long_frame(index, low1, jump, v10, gap, tail) ==
    frame(index,
          [i \in 1..22 |-> IF i - 1 >= 12 THEN i + gap ELSE i],
          [i \in 1..22 |-> long_bar(i - 1, low1, jump, v10, tail)])

\* <<low1, jump, v10, gap>>: the reference shape and its one-step variants
\* (equal lows, no RSI crossing, one A/D swing low, equal A/D lows, the
\* earlier A/D swing low more than max_dist days before the later price low)
Shapes ==
    { <<7, 4, 3, 0>>, <<6, 4, 3, 0>>, <<7, 2, 3, 0>>,
      <<7, 4, 0, 0>>, <<7, 4, 1, 0>>, <<7, 4, 3, 1>> }

LongFrames ==
    {long_frame(index, s[1], s[2], s[3], s[4], tail) :
        index \in {"range", "datetime"}, s \in Shapes, tail \in Tails}

\* frames of 10 bars, fewer than 2*order+1, with swing lows of the low and
\* of the A/D line at bars 2 and 8; low8 is the low of bar 8 (bar 2: 10)
mid_bars(low8) ==
    << <<Fin(12), Fin(14), Fin(12), Fin(1)>>, <<Fin(11), Fin(13), Fin(11), Fin(1)>>,
       <<Fin(10), Fin(12), Fin(10), Fin(1)>>, <<Fin(11), Fin(13), Fin(13), Fin(1)>>,
       <<Fin(12), Fin(14), Fin(14), Fin(1)>>, <<Fin(13), Fin(15), Fin(15), Fin(1)>>,
       <<Fin(12), Fin(14), Fin(12), Fin(1)>>, <<Fin(11), Fin(13), Fin(11), Fin(1)>>,
       <<Fin(low8), Fin(low8 + 2), Fin(low8), Fin(1)>>,
       <<Fin(10), Fin(12), Fin(12), Fin(1)>> >>

MidFrames ==
    {frame(index, [i \in 1..10 |-> i], mid_bars(low8)) :
        index \in {"range", "datetime"}, low8 \in {9, 10}}

TwoBars ==
    frame("range", <<1, 2>>, << <<Fin(9), Fin(11), Fin(10), Fin(2)>>,
                                <<Fin(11), Fin(13), Fin(13), Fin(1)>> >>)

\* A frame of 120 daily bars indexed by date: the low has its swing lows at
\* bar 30 (10) and bar 60 (9), the A/D line at bar 30 (100) and bar 60
\* (150), RSI is 0 at bar 59 and 1000/23 at bar 60, and the closes end above
\* both averages on seven gains and seven losses of 1.
scenario_bar(i) ==
    IF i = 0 THEN <<Fin(40), Fin(42), Fin(42), Fin(130)>>
    ELSE IF i <= 30 THEN <<Fin(40 - i), Fin(42 - i), Fin(40 - i), Fin(1)>>
    ELSE IF i <= 45 THEN <<Fin(i - 20), Fin(i - 18), Fin(i - 18),
                           Fin(IF i = 45 THEN 9 ELSE 4)>>
    ELSE IF i <= 59 THEN <<Fin(69 - i), Fin(71 - i), Fin(69 - i), Fin(1)>>
    ELSE IF i = 60 THEN <<Fin(9), Fin(42), Fin(20), Fin(3)>>
    ELSE LET c == 20 + 2 * (Min(i, 105) - 60)
                     + (IF i > 105 /\ (i - 105) % 2 = 1 THEN 1 ELSE 0)
         IN  <<Fin(i - 51), Fin(c), Fin(c), Fin(1)>>

scenario_frame ==
    frame("datetime", [i \in 1..120 |-> i], [i \in 1..120 |-> scenario_bar(i - 1)])

\* 15 bars with the same close: no gain and no loss in the first full window
flat_frame ==
    frame("range", [i \in 1..15 |-> i],
          [i \in 1..15 |-> <<Fin(9), Fin(11), Fin(10), Fin(1)>>])

\* two bars, the second with high = low and a close above them
zero_range_frame ==
    frame("range", <<1, 2>>, << <<Fin(9), Fin(11), Fin(10), Fin(2)>>,
                                <<Fin(10), Fin(10), Fin(11), Fin(1)>> >>)

\* 10 bars, each low above the one before
rising_frame ==
    frame("range", [i \in 1..10 |-> i],
          [i \in 1..10 |-> <<Fin(9 + i), Fin(11 + i), Fin(10 + i), Fin(1)>>])

\* 10 bars indexed by date, the low a swing low at bars 2 (10) and 8 (9),
\* the A/D line at bars 2 (-3) and 8 (-1); RSI is undefined at every bar
early_frame ==
    frame("datetime", [i \in 1..10 |-> i],
          [mid_bars(9) EXCEPT ![4] = <<Fin(11), Fin(13), Fin(13), Fin(3)>>])

\* frames that lack a column score reads
MissingFrames == {without(TwoBars, c) : c \in {"close", "low", "volume"}}

Frames ==
    ShortFrames \cup MissingFrames \cup MidFrames \cup LongFrames
        \cup {scenario_frame, flat_frame, zero_range_frame, rising_frame,
              early_frame}

\* the frames a scoring object is given as the first of two
FirstFrames ==
    { long_frame("datetime", 7, 4, 3, 0, <<6, -3, 6, -3, 6, -4>>),
      long_frame("range", 7, 4, 3, 0, <<1, 1, 1, 1, 1, 1>>),
      long_frame("range", 6, 4, 3, 0, <<8, 8, 8, -8, -8, -9>>),
      without(TwoBars, "low"),
      TwoBars }

(***************************************************************************)
(* AdDivergenceScoring.score as a machine.  The frames are objects of a    *)
(* heap; df and self.df hold references (slots) to them, 0 being None.     *)
(* m = [heap, selfdf, call], call = [pc, df, score, ret]: pc is the next   *)
(* statement of the call, df its argument, score its local variable and    *)
(* ret the value returned when pc = "done"; pc = "raised" is a call left   *)
(* by an exception.                                                        *)
(***************************************************************************)
NoFrame == [index |-> "none", date |-> <<>>, cols |-> <<>>]

IdleCall == [pc |-> "idle", df |-> 0, score |-> 0, ret |-> 0]

\* column.iloc[-1] of self.df raises on a frame without rows
last(m, c) == iloc(m.heap[m.selfdf].cols[c], -1)

readable(m, columns) ==
    /\ \A c \in columns : has(m.heap[m.selfdf], c)
    /\ nrows(m.heap[m.selfdf]) > 0

\* lines 23-40
try_block(m) ==
    LET r == indicators(m.heap[m.call.df])
    IN  [m EXCEPT !.heap[m.call.df] = r.f,
                  !.call.pc = IF r.ok THEN "assign" ELSE "done",
                  !.call.ret = 0]

\* assign_self that keeps the frame the scoring object already refers to
assign_self_once(m) ==
    [m EXCEPT !.selfdf = IF m.selfdf = 0 THEN m.call.df ELSE m.selfdf,
              !.call.score = 0, !.call.pc = "divergence"]

\* lines 42-43
assign_self(m) ==
    [m EXCEPT !.selfdf = m.call.df, !.call.score = 0, !.call.pc = "divergence"]

\* divergence_gate with a weight of 50
divergence_gate_50(m) ==
    LET r == detect_ad_bullish_divergence(m.heap[m.selfdf])
    IN  [m EXCEPT !.heap[m.selfdf] = r.f,
                  !.call.pc = IF r.out = "raise" THEN "raised" ELSE "trend",
                  !.call.score = IF r.out = "True" THEN @ + 50 ELSE @]

\* lines 44-45
divergence_gate(m) ==
    LET r == detect_ad_bullish_divergence(m.heap[m.selfdf])
    IN  [m EXCEPT !.heap[m.selfdf] = r.f,
                  !.call.pc = IF r.out = "raise" THEN "raised" ELSE "trend",
                  !.call.score = IF r.out = "True" THEN @ + DivergencePoints ELSE @]

\* lines 46-47: close > EMA50 > EMA200
trend_gate(m) ==
    IF ~readable(m, {"close", "EMA50", "EMA200"}) THEN [m EXCEPT !.call.pc = "raised"]
    ELSE [m EXCEPT !.call.pc = "emaorder",
                   !.call.score =
                       IF /\ less(last(m, "EMA50"), last(m, "close"))
                          /\ less(last(m, "EMA200"), last(m, "EMA50"))
                       THEN @ + TrendPoints ELSE @]

\* ema_order_gate with the operands exchanged
ema_order_gate_swapped(m) ==
    IF ~readable(m, {"EMA50", "EMA200"}) THEN [m EXCEPT !.call.pc = "raised"]
    ELSE [m EXCEPT !.call.pc = "rsiband",
                   !.call.score =
                       IF less(last(m, "EMA50"), last(m, "EMA200"))
                       THEN @ + EmaOrderPoints ELSE @]

\* lines 48-49: EMA50 > EMA200
ema_order_gate(m) ==
    IF ~readable(m, {"EMA50", "EMA200"}) THEN [m EXCEPT !.call.pc = "raised"]
    ELSE [m EXCEPT !.call.pc = "rsiband",
                   !.call.score =
                       IF less(last(m, "EMA200"), last(m, "EMA50"))
                       THEN @ + EmaOrderPoints ELSE @]

\* rsi_band_gate with the bounds included
rsi_band_gate_inclusive(m) ==
    IF ~readable(m, {"RSI"}) THEN [m EXCEPT !.call.pc = "raised"]
    ELSE LET sc == IF /\ less_equal(last(m, "RSI"), Fin(RsiHigh))
                      /\ less_equal(Fin(RsiLow), last(m, "RSI"))
                   THEN m.call.score + RsiBandPoints ELSE m.call.score
         IN  [m EXCEPT !.call.pc = "done", !.call.score = sc, !.call.ret = sc]

\* rsi_band_gate that raises on an undefined RSI
rsi_band_gate_nan_raises(m) ==
    IF ~readable(m, {"RSI"}) \/ isna(last(m, "RSI")) THEN [m EXCEPT !.call.pc = "raised"]
    ELSE LET sc == IF /\ less(last(m, "RSI"), Fin(RsiHigh))
                      /\ less(Fin(RsiLow), last(m, "RSI"))
                   THEN m.call.score + RsiBandPoints ELSE m.call.score
         IN  [m EXCEPT !.call.pc = "done", !.call.score = sc, !.call.ret = sc]

\* lines 50-53: 70 > RSI > 30, then return score
rsi_band_gate(m) ==
    IF ~readable(m, {"RSI"}) THEN [m EXCEPT !.call.pc = "raised"]
    ELSE LET sc == IF /\ less(last(m, "RSI"), Fin(RsiHigh))
                      /\ less(Fin(RsiLow), last(m, "RSI"))
                   THEN m.call.score + RsiBandPoints ELSE m.call.score
         IN  [m EXCEPT !.call.pc = "done", !.call.score = sc, !.call.ret = sc]

score_step(m) ==
    CASE m.call.pc = "try" -> try_block(m)
      [] m.call.pc = "assign" -> assign_self(m)
      [] m.call.pc = "divergence" -> divergence_gate(m)
      [] m.call.pc = "trend" -> trend_gate(m)
      [] m.call.pc = "emaorder" -> ema_order_gate(m)
      [] m.call.pc = "rsiband" -> rsi_band_gate(m)

\* a call run to its end without another call in between
RECURSIVE run(_)
run(m) == IF m.call.pc \in {"done", "raised"} THEN m ELSE run(score_step(m))

\* scoring.score(f) on a scoring object whose df refers to frame prev
\* (NoFrame: a new AdDivergenceScoring)
score(prev, f) ==
    run([heap |-> <<prev, f>>, selfdf |-> IF prev = NoFrame THEN 0 ELSE 1,
         call |-> [pc |-> "try", df |-> 2, score |-> 0, ret |-> 0]])

(***************************************************************************)
(* State.                                                                  *)
(*   heap    the frame objects, by slot                                    *)
(*   selfdf  AdDivergenceScoring.df of the scoring object: a slot or 0     *)
(*   calls   the score calls in progress, by caller                        *)
(*   orig    per slot, the frame as it was when first passed to score      *)
(*   res     per slot, how the last finished call on that frame ended      *)
(*   symbolsToAnalyse  AdDivergenceStrategy.symbolsToAnalyse               *)
(*   symbolsToTrade    AdDivergenceStrategy.symbolsToTrade, an attribute   *)
(*                     of the class                                        *)
(*   it, gs            Trading.init_trade and get_symbols in progress      *)
(*   connected         _connected of the MarketDataProvider of Trading     *)
(*                     ("trading") and of the strategy ("strategy")        *)
(*   hist              of the current init_trade: the symbols the loop of  *)
(*                     get_symbols reached, those whose scoring raised,    *)
(*                     those with data and a score of the threshold or     *)
(*                     more,                                               *)
(*                     and the counts that bound the model                 *)
(*   db                DatabaseManager: the rows of historical_data (their *)
(*                     UNIQUE key) and the last save_historical_data call  *)
(*   ib                IBDataProvider: the attributes of the object        *)
(*   threads           the thread that calls the provider and the reader   *)
(*                     thread that runs the callbacks                      *)
(*   wire              per request sent, the messages the gateway has yet  *)
(*                     to deliver for it                                   *)
(*   iblog             the request ids issued, the historical requests     *)
(*                     whose call has returned, the last scanner result    *)
(***************************************************************************)
VARIABLES heap, selfdf, calls, orig, res,
          symbolsToAnalyse, symbolsToTrade, it, gs, connected, hist,
          db, ib, threads, wire, iblog

scoring_vars == <<heap, selfdf, calls, orig, res>>

trading_vars == <<symbolsToAnalyse, symbolsToTrade, it, gs, connected, hist>>

db_vars == <<db>>

ib_vars == <<ib, threads, wire, iblog>>

provider_vars == <<db, ib, threads, wire, iblog>>

vars == <<heap, selfdf, calls, orig, res,
          symbolsToAnalyse, symbolsToTrade, it, gs, connected, hist,
          db, ib, threads, wire, iblog>>

Slots == {1, 2}

Callers == {1, 2}

NoResult == [kind |-> "none", val |-> 0]

outcome(call) == [kind |-> call.pc, val |-> call.ret]

IdleTrade == [pc |-> "idle", symbolList |-> <<>>, symbolToTrade |-> <<>>]

\* no save_historical_data call yet
NoSave == [symbol |-> "", source |-> "", stamps |-> <<>>]

\* IBDataProvider.__init__, ib_provider.py lines 22-41; the dictionaries are
\* functions on the set of their keys
EmptyDict == [k \in {} |-> 0]

NewProvider ==
    [connected |-> FALSE, next_req_id |-> 10000,
     scanner_results |-> <<>>, scanner_done |-> FALSE,
     history_buf |-> EmptyDict, req_map |-> EmptyDict, history_done |-> EmptyDict]

\* the caller is in no call of the provider, the reader in no callback
IdleThreads ==
    [caller |-> [pc |-> "idle", kind |-> "none", req_id |-> 0, tmp |-> 0],
     reader |-> [pc |-> "idle", tmp |-> 0]]

\* no get_scanner_results call has returned yet
NoScan == [req_id |-> 0, rows |-> <<>>]

Init ==
    /\ heap = [s \in Slots |-> NoFrame]
    /\ selfdf = 0
    /\ calls = [k \in Callers |-> IdleCall]
    /\ orig = [s \in Slots |-> NoFrame]
    /\ res = [s \in Slots |-> NoResult]
    /\ symbolsToAnalyse = <<>>
    /\ symbolsToTrade = <<>>
    /\ it = IdleTrade
    /\ gs = [pc |-> "idle", i |-> 0]
    /\ connected = [p \in {"trading", "strategy"} |-> FALSE]
    /\ hist = [attempted |-> {}, failed |-> {}, qualified |-> {}, data |-> 0, runs |-> 0]
    /\ db = [historical_data |-> {}, call |-> NoSave, ret |-> "none"]
    /\ ib = NewProvider
    /\ threads = IdleThreads
    /\ wire = <<>>
    /\ iblog = [issued |-> <<>>, returned |-> {}, scan |-> NoScan,
                calls |-> 0, callbacks |-> 0]

in_use(s) == \E k \in Callers : calls[k].pc # "idle" /\ calls[k].df = s

\* caller k passes a new frame f, put in slot s, to score
ScoreNew(k, s, f) ==
    /\ calls[k].pc = "idle"
    /\ s # selfdf
    /\ ~in_use(s)
    /\ heap' = [heap EXCEPT ![s] = f]
    /\ orig' = [orig EXCEPT ![s] = f]
    /\ res' = [res EXCEPT ![s] = NoResult]
    /\ calls' = [calls EXCEPT ![k] = [pc |-> "try", df |-> s, score |-> 0, ret |-> 0]]
    /\ UNCHANGED <<selfdf, trading_vars, provider_vars>>

\* caller k passes the frame of slot s, scored before, to score again
ScoreAgain(k, s) ==
    /\ calls[k].pc = "idle"
    /\ heap[s] # NoFrame
    /\ ~in_use(s)
    /\ calls' = [calls EXCEPT ![k] = [pc |-> "try", df |-> s, score |-> 0, ret |-> 0]]
    /\ UNCHANGED <<heap, selfdf, orig, res, trading_vars, provider_vars>>

machine(k) == [heap |-> heap, selfdf |-> selfdf, call |-> calls[k]]

becomes(k, m) ==
    /\ heap' = m.heap
    /\ selfdf' = m.selfdf
    /\ calls' = [calls EXCEPT ![k] = m.call]
    /\ UNCHANGED <<orig, res, trading_vars, provider_vars>>

TryBlock(k) == calls[k].pc = "try" /\ becomes(k, try_block(machine(k)))

AssignSelf(k) == calls[k].pc = "assign" /\ becomes(k, assign_self(machine(k)))

DivergenceGate(k) == calls[k].pc = "divergence" /\ becomes(k, divergence_gate(machine(k)))

TrendGate(k) == calls[k].pc = "trend" /\ becomes(k, trend_gate(machine(k)))

EmaOrderGate(k) == calls[k].pc = "emaorder" /\ becomes(k, ema_order_gate(machine(k)))

RsiBandGate(k) == calls[k].pc = "rsiband" /\ becomes(k, rsi_band_gate(machine(k)))

\* the call of caller k is over: score returned or raised
Return(k) ==
    /\ calls[k].pc \in {"done", "raised"}
    /\ res' = [res EXCEPT ![calls[k].df] = outcome(calls[k])]
    /\ calls' = [calls EXCEPT ![k] = IdleCall]
    /\ UNCHANGED <<heap, selfdf, orig, trading_vars, provider_vars>>

Statement(k) ==
    \/ TryBlock(k)
    \/ AssignSelf(k)
    \/ DivergenceGate(k)
    \/ TrendGate(k)
    \/ EmaOrderGate(k)
    \/ RsiBandGate(k)
    \/ Return(k)

\* One caller scores frame after frame on one scoring object, as
\* get_symbols does.
Next ==
    \/ \E f \in FirstFrames : ScoreNew(1, 1, f)
    \/ \E f \in Frames : ScoreNew(1, 2, f)
    \/ \E s \in Slots : ScoreAgain(1, s)
    \/ Statement(1)

Spec == Init /\ [][Next]_vars

\* Two callers share one scoring object, as the callers of one strategy
\* do; each passes frames of its own (slot k belongs to caller k) and the
\* statements of the two calls interleave.
ConcFrames ==
    { long_frame("datetime", 7, 4, 3, 0, <<6, -3, 6, -3, 6, -4>>),
      long_frame("datetime", 6, 4, 3, 0, <<1, 1, 1, 1, 1, 1>>),
      TwoBars }

NextConc ==
    \E k \in Callers :
        \/ \E f \in ConcFrames : ScoreNew(k, k, f)
        \/ ScoreAgain(k, k)
        \/ Statement(k)

SpecConc == Init /\ [][NextConc]_vars

(***************************************************************************)
(* Trading.init_trade and AdDivergenceStrategy.get_symbols.  The strategy  *)
(* scores the frames of its symbols one after the other on its one scoring *)
(* object; each score call runs to its end within the loop iteration.      *)
(***************************************************************************)
\* trading.py line 61
Symbols == <<"AAPL", "MSFT", "GOOGL", "AMZN", "TSLA">>

\* frames as get_historical_data returns them: all columns, RangeIndex, at
\* least one bar.  They score 40, score 60, and raise in the divergence step.
StrategyFrames ==
    { TwoBars,
      long_frame("range", 6, 4, 3, 0, <<6, -3, 6, -3, 6, -4>>),
      long_frame("range", 7, 4, 3, 0, <<1, 1, 1, 1, 1, 1>>) }

\* init_trade lines 53-56; MarketDataProvider.connect returns False, and
\* leaves _connected False, when the gateway does not answer
InitTradeStart ==
    /\ it.pc \in {"idle", "returned", "failed"}
    /\ hist.runs < MaxRuns
    /\ it' = [pc |-> "strategy", symbolList |-> <<>>, symbolToTrade |-> <<>>]
    /\ \E ok \in BOOLEAN : connected' = [connected EXCEPT !["trading"] = ok]
    /\ hist' = [hist EXCEPT !.attempted = {}, !.failed = {}, !.qualified = {},
                             !.runs = @ + 1]
    /\ UNCHANGED <<provider_vars, scoring_vars, symbolsToAnalyse, symbolsToTrade, gs>>

\* init_trade lines 57-63: set_symbols_to_analyse, then get_symbols is entered
InitTradeScan ==
    /\ it.pc = "strategy"
    /\ symbolsToAnalyse' = Symbols
    /\ it' = [it EXCEPT !.pc = "get_symbols"]
    /\ gs' = [pc |-> "connect", i |-> 1]
    /\ UNCHANGED <<provider_vars, scoring_vars, symbolsToTrade, connected, hist>>

\* get_symbols line 51
GetSymbolsConnect ==
    /\ gs.pc = "connect"
    /\ \E ok \in BOOLEAN : connected' = [connected EXCEPT !["strategy"] = ok]
    /\ gs' = [gs EXCEPT !.pc = "loop"]
    /\ UNCHANGED <<provider_vars, scoring_vars, symbolsToAnalyse, symbolsToTrade, it, hist>>

\* get_symbols lines 52-56 when get_historical_data returns None: the
\* provider is not connected, the download failed or it was empty
GetSymbolsNoData ==
    /\ gs.pc = "loop"
    /\ gs.i <= Len(symbolsToAnalyse)
    /\ gs' = [gs EXCEPT !.i = @ + 1]
    /\ hist' = [hist EXCEPT !.attempted = @ \cup {symbolsToAnalyse[gs.i]}]
    /\ UNCHANGED <<provider_vars, scoring_vars, symbolsToAnalyse, symbolsToTrade, it, connected>>

\* get_symbols lines 52-59 when get_historical_data returns the frame f
GetSymbolsScore(f) ==
    /\ gs.pc = "loop"
    /\ gs.i <= Len(symbolsToAnalyse)
    /\ connected["strategy"]
    /\ hist.data < MaxData
    /\ LET symbol == symbolsToAnalyse[gs.i]
           s == IF selfdf = 1 THEN 2 ELSE 1
           m == run([heap |-> [heap EXCEPT ![s] = f], selfdf |-> selfdf,
                     call |-> [pc |-> "try", df |-> s, score |-> 0, ret |-> 0]])
       IN  /\ heap' = m.heap
           /\ selfdf' = m.selfdf
           /\ orig' = [orig EXCEPT ![s] = f]
           /\ res' = [res EXCEPT ![s] = outcome(m.call)]
           /\ gs' = IF m.call.pc = "raised" THEN [gs EXCEPT !.pc = "raised"]
                    ELSE [gs EXCEPT !.i = @ + 1]
           /\ symbolsToTrade' =
                  IF m.call.pc = "done" /\ m.call.ret >= ScoreThreshold
                  THEN Append(symbolsToTrade, symbol) ELSE symbolsToTrade
           /\ hist' = [hist EXCEPT !.attempted = @ \cup {symbol},
                                   !.failed = IF m.call.pc = "raised"
                                              THEN @ \cup {symbol} ELSE @,
                                   !.qualified =
                                       IF m.call.pc = "done" /\ m.call.ret >= ScoreThreshold
                                       THEN @ \cup {symbol} ELSE @,
                                   !.data = @ + 1]
    /\ UNCHANGED <<provider_vars, calls, symbolsToAnalyse, it, connected>>

\* get_symbols lines 60-61
GetSymbolsReturn ==
    /\ gs.pc = "loop"
    /\ gs.i > Len(symbolsToAnalyse)
    /\ connected' = [connected EXCEPT !["strategy"] = FALSE]
    /\ gs' = [gs EXCEPT !.pc = "returned"]
    /\ UNCHANGED <<provider_vars, scoring_vars, symbolsToAnalyse, symbolsToTrade, it, hist>>

\* init_trade lines 63-75
InitTradeReturn ==
    /\ it.pc = "get_symbols"
    /\ gs.pc = "returned"
    /\ it' = [pc |-> "returned",
              symbolList |-> Append(it.symbolList, symbolsToAnalyse),
              symbolToTrade |-> it.symbolToTrade \o symbolsToTrade]
    /\ connected' = [connected EXCEPT !["trading"] = FALSE]
    /\ gs' = [gs EXCEPT !.pc = "idle"]
    /\ UNCHANGED <<provider_vars, scoring_vars, symbolsToAnalyse, symbolsToTrade, hist>>

\* init_trade lines 77-79: an exception left get_symbols
InitTradeExcept ==
    /\ it.pc = "get_symbols"
    /\ gs.pc = "raised"
    /\ it' = [it EXCEPT !.pc = "failed"]
    /\ connected' = [connected EXCEPT !["trading"] = FALSE]
    /\ gs' = [gs EXCEPT !.pc = "idle"]
    /\ UNCHANGED <<provider_vars, scoring_vars, symbolsToAnalyse, symbolsToTrade, hist>>

NextTrading ==
    \/ InitTradeStart
    \/ InitTradeScan
    \/ GetSymbolsConnect
    \/ GetSymbolsNoData
    \/ \E f \in StrategyFrames : GetSymbolsScore(f)
    \/ GetSymbolsReturn
    \/ InitTradeReturn
    \/ InitTradeExcept

SpecTrading == Init /\ [][NextTrading]_vars

(***************************************************************************)
(* DatabaseManager.save_historical_data, db_manager.py lines 269-349.      *)
(* A row of historical_data is kept as its UNIQUE key (symbol, date,       *)
(* source).                                                                *)
(***************************************************************************)
DbSymbols == {"AAPL", "MSFT"}

DbSources == {"ib", "yfinance"}

Stamps == 0..(2 * MaxDay + 1)

RECURSIVE Batches(_)
Batches(n) ==
    IF n = 0 THEN {<<>>}
    ELSE {Append(b, t) : b \in Batches(n - 1), t \in Stamps}

\* the frames given: 1 to MaxBatch bars
DbFrames == UNION {Batches(n) : n \in 1..MaxBatch}

\* line 297: pd.to_datetime(date).dt.strftime('%Y-%m-%d') keeps the day of a
\* time stamp
strftime(stamp) == stamp \div 2

\* lines 289-319: the rows to insert, in the order of the bars
to_rows(symbol, stamps, source) ==
    [i \in 1..Len(stamps) |->
        [symbol |-> symbol, date |-> strftime(stamps[i]), source |-> source]]

\* the INSERT of to_sql meets the UNIQUE constraint: a row is in the table
\* already or occurs twice in the batch
unique_conflict(table, rows) ==
    \/ \E i \in 1..Len(rows) : rows[i] \in table
    \/ \E i, j \in 1..Len(rows) : i # j /\ rows[i] = rows[j]

\* lines 321-349.  to_sql inserts the batch in one transaction, which it
\* rolls back when a statement fails; raises: "none", "IntegrityError" or
\* "Exception" (any other error of the database, such as a locked file)
SaveHistoricalData(symbol, stamps, source, fails) ==
    LET rows == to_rows(symbol, stamps, source)
        raises == IF fails THEN "Exception"
                  ELSE IF unique_conflict(db.historical_data, rows) THEN "IntegrityError"
                  ELSE "none"
    IN  /\ db' = [historical_data |->
                      IF raises = "none"
                      THEN db.historical_data \cup {rows[i] : i \in 1..Len(rows)}
                      ELSE db.historical_data,
                  call |-> [symbol |-> symbol, source |-> source, stamps |-> stamps],
                  ret |-> IF raises = "Exception" THEN "False" ELSE "True"]
        /\ UNCHANGED <<scoring_vars, trading_vars, ib_vars>>

NextDb ==
    \E symbol \in DbSymbols, stamps \in DbFrames, source \in DbSources,
       fails \in BOOLEAN :
        SaveHistoricalData(symbol, stamps, source, fails)

SpecDb == Init /\ [][NextDb]_vars

(***************************************************************************)
(* IBDataProvider, ib_provider.py.  The caller thread runs                 *)
(* get_scanner_results and get_historical_data, one call after the other;  *)
(* the reader thread (EClient.run, started by connect) runs the callbacks, *)
(* one message at a time.  The two threads share the attributes of the     *)
(* object without a lock, so each read and each write of an attribute is a *)
(* step of its own wherever the other thread writes the same attribute.    *)
(***************************************************************************)
\* d[k] = v, d.pop(k, None), d.get(k, default) and defaultdict(list)[k]
put(d, k, v) == [x \in (DOMAIN d) \cup {k} |-> IF x = k THEN v ELSE d[x]]

pop(d, k) == [x \in (DOMAIN d) \ {k} |-> d[x]]

get(d, k, default) == IF k \in DOMAIN d THEN d[k] ELSE default

\* what the gateway sends for one request: up to MaxRows rows or bars, then
\* the end message; nothing at all when it does not answer
RECURSIVE RowsUpTo(_)
RowsUpTo(n) ==
    IF n = 0 THEN {<<>>}
    ELSE RowsUpTo(n - 1) \cup {Append(r, "row") : r \in RowsUpTo(n - 1)}

Replies == {<<>>} \cup {Append(r, "end") : r \in RowsUpTo(MaxRows)}

\* the order ids the gateway announces
OrderIds == {1, 10001}

caller == threads.caller

reader == threads.reader

\* connect, lines 43-68
IbConnect ==
    /\ caller.pc = "idle"
    /\ ~ib.connected
    /\ ib' = [ib EXCEPT !.connected = TRUE]
    /\ UNCHANGED <<scoring_vars, trading_vars, db_vars, threads, wire, iblog>>

\* get_scanner_results lines 85-123, get_historical_data lines 170-210:
\* not connected, the call returns at once ([] or None); otherwise the
\* scanner call resets its two attributes and goes on
IbCall(kind) ==
    /\ caller.pc = "idle"
    /\ iblog.calls < MaxCalls
    /\ iblog' = [iblog EXCEPT !.calls = @ + 1,
                              !.scan = IF kind = "scan" /\ ~ib.connected
                                       THEN [req_id |-> 0, rows |-> <<>>] ELSE @]
    /\ threads' = IF ib.connected
                  THEN [threads EXCEPT !.caller = [pc |-> "read", kind |-> kind,
                                                   req_id |-> 0, tmp |-> 0]]
                  ELSE threads
    /\ ib' = IF ib.connected /\ kind = "scan"
             THEN [ib EXCEPT !.scanner_results = <<>>, !.scanner_done = FALSE]
             ELSE ib
    /\ UNCHANGED <<scoring_vars, trading_vars, db_vars, wire>>

\* lines 125 and 212: req_id = self._next_req_id
AllocRead ==
    /\ caller.pc = "read"
    /\ threads' = [threads EXCEPT !.caller.req_id = ib.next_req_id,
                                  !.caller.pc = "load"]
    /\ UNCHANGED <<scoring_vars, trading_vars, db_vars, ib, wire, iblog>>

\* lines 126 and 213, self._next_req_id += 1: the attribute is read ...
AllocLoad ==
    /\ caller.pc = "load"
    /\ threads' = [threads EXCEPT !.caller.tmp = ib.next_req_id,
                                  !.caller.pc = "store"]
    /\ UNCHANGED <<scoring_vars, trading_vars, db_vars, ib, wire, iblog>>

\* ... and written
AllocStore ==
    /\ caller.pc = "store"
    /\ ib' = [ib EXCEPT !.next_req_id = caller.tmp + 1]
    /\ threads' = [threads EXCEPT !.caller.pc = "request"]
    /\ iblog' = [iblog EXCEPT !.issued = Append(@, caller.req_id)]
    /\ UNCHANGED <<scoring_vars, trading_vars, db_vars, wire>>

\* line 131, reqScannerSubscription, and lines 215-222, the three entries
\* for req_id and reqHistoricalData; reply is what the gateway will send
IbRequest(reply) ==
    /\ caller.pc = "request"
    /\ wire' = Append(wire, [req_id |-> caller.req_id, kind |-> caller.kind,
                             msgs |-> reply])
    /\ ib' = IF caller.kind = "hist"
             THEN [ib EXCEPT !.history_buf = put(@, caller.req_id, <<>>),
                             !.history_done = put(@, caller.req_id, FALSE),
                             !.req_map = put(@, caller.req_id, "AAPL")]
             ELSE ib
    /\ threads' = [threads EXCEPT !.caller.pc = "wait"]
    /\ UNCHANGED <<scoring_vars, trading_vars, db_vars, iblog>>

\* lines 134-139 and 224-227: the loop ends on the done flag, on max_results
\* rows (scanner) or when the 30 s have passed (timeout)
IbWait(timeout) ==
    /\ caller.pc = "wait"
    /\ \/ timeout
       \/ caller.kind = "scan" /\ ib.scanner_done
       \/ caller.kind = "scan" /\ Len(ib.scanner_results) >= MaxResults
       \/ caller.kind = "hist" /\ get(ib.history_done, caller.req_id, FALSE)
    /\ threads' = [threads EXCEPT !.caller.pc = "collect"]
    /\ UNCHANGED <<scoring_vars, trading_vars, db_vars, ib, wire, iblog>>

\* lines 141-146: cancelScannerSubscription, after which the gateway sends
\* no more for the request; the messages already under way are delivered
\* (inflight) or not; the rows are cut to max_results and returned
ScannerReturn(inflight) ==
    /\ caller.pc = "collect"
    /\ caller.kind = "scan"
    /\ wire' = [wire EXCEPT ![Len(wire)].msgs = IF inflight THEN @ ELSE <<>>]
    /\ iblog' = [iblog EXCEPT !.scan =
                    [req_id |-> caller.req_id,
                     rows |-> SubSeq(ib.scanner_results, 1,
                                     Min(MaxResults, Len(ib.scanner_results)))]]
    /\ threads' = [threads EXCEPT !.caller = IdleThreads.caller]
    /\ UNCHANGED <<scoring_vars, trading_vars, db_vars, ib>>

\* lines 229-249: the bars are read, the frame or None is returned and the
\* finally clause removes the three entries of req_id
HistoricalReturn ==
    /\ caller.pc = "collect"
    /\ caller.kind = "hist"
    /\ ib' = [ib EXCEPT !.history_buf = pop(@, caller.req_id),
                        !.history_done = pop(@, caller.req_id),
                        !.req_map = pop(@, caller.req_id)]
    /\ iblog' = [iblog EXCEPT !.returned = @ \cup {caller.req_id}]
    /\ threads' = [threads EXCEPT !.caller = IdleThreads.caller]
    /\ UNCHANGED <<scoring_vars, trading_vars, db_vars, wire>>

\* the reader thread takes the next message of request c and runs its
\* callback: scannerData (lines 152-164), scannerDataEnd (166-168),
\* historicalData (251-260, history_buf being a defaultdict(list)) or
\* historicalDataEnd (262-264).  A scanner row is kept as the id of the
\* request it answers.
Deliver(c) ==
    /\ reader.pc = "idle"
    /\ c \in 1..Len(wire)
    /\ wire[c].msgs # <<>>
    /\ wire' = [wire EXCEPT ![c].msgs = Tail(@)]
    /\ LET id == wire[c].req_id
           m == Head(wire[c].msgs)
       IN  ib' = IF wire[c].kind = "scan"
                 THEN (IF m = "row"
                       THEN [ib EXCEPT !.scanner_results = Append(@, id)]
                       ELSE [ib EXCEPT !.scanner_done = TRUE])
                 ELSE (IF m = "row"
                       THEN [ib EXCEPT !.history_buf =
                                put(@, id, Append(get(@, id, <<>>), "bar"))]
                       ELSE [ib EXCEPT !.history_done = put(@, id, TRUE)])
    /\ UNCHANGED <<scoring_vars, trading_vars, db_vars, threads, iblog>>

\* nextValidId, line 82: max(self._next_req_id, orderId) is computed ...
NextValidIdRead(orderId) ==
    /\ reader.pc = "idle"
    /\ ib.connected
    /\ iblog.callbacks < MaxNextValidId
    /\ threads' = [threads EXCEPT !.reader = [pc |-> "write",
                                              tmp |-> Max(ib.next_req_id, orderId)]]
    /\ iblog' = [iblog EXCEPT !.callbacks = @ + 1]
    /\ UNCHANGED <<scoring_vars, trading_vars, db_vars, ib, wire>>

\* ... and assigned to self._next_req_id
NextValidIdWrite ==
    /\ reader.pc = "write"
    /\ ib' = [ib EXCEPT !.next_req_id = reader.tmp]
    /\ threads' = [threads EXCEPT !.reader = IdleThreads.reader]
    /\ UNCHANGED <<scoring_vars, trading_vars, db_vars, wire, iblog>>

NextIb ==
    \/ IbConnect
    \/ \E kind \in {"scan", "hist"} : IbCall(kind)
    \/ AllocRead
    \/ AllocLoad
    \/ AllocStore
    \/ \E reply \in Replies : IbRequest(reply)
    \/ \E timeout \in BOOLEAN : IbWait(timeout)
    \/ \E inflight \in BOOLEAN : ScannerReturn(inflight)
    \/ HistoricalReturn
    \/ \E c \in 1..MaxCalls : Deliver(c)
    \/ \E orderId \in OrderIds : NextValidIdRead(orderId)
    \/ NextValidIdWrite

SpecIb == Init /\ [][NextIb]_vars

(***************************************************************************)
(* Properties.                                                             *)
(***************************************************************************)
RECURSIVE set_sum(_)
set_sum(S) == IF S = {} THEN 0 ELSE LET x == CHOOSE y \in S : TRUE IN x + set_sum(S \ {x})

Contributions == {DivergencePoints, TrendPoints, EmaOrderPoints, RsiBandPoints}

\* the frame passed to the call of caller k
arg(k) == heap[calls[k].df]

\* the try block of a call on f ends without an exception
built(f) == {"close", "low", "high", "volume"} \subseteq DOMAIN f.cols

b2i(b) == IF b THEN 1 ELSE 0

\* C1: whenever score returns, the value is an integer from 0 to 100 that
\* is the sum of a subset of {40, 30, 10, 20}.
C1_ScoreRange ==
    \A k \in Callers :
        calls[k].pc = "done" =>
            /\ calls[k].ret \in 0..100
            /\ calls[k].ret \in {set_sum(S) : S \in SUBSET Contributions}

\* a call returned 100: all four contributions
C1_Witness == calls[1].pc = "done" /\ calls[1].ret = 100

\* the four gates of the claim, read off the frame a call was given
gate_D(f) == detect_ad_bullish_divergence(f).out = "True"

gate_T(f) ==
    /\ less(iloc(f.cols["EMA50"], -1), iloc(f.cols["close"], -1))
    /\ less(iloc(f.cols["EMA200"], -1), iloc(f.cols["EMA50"], -1))

gate_E(f) == less(iloc(f.cols["EMA200"], -1), iloc(f.cols["EMA50"], -1))

gate_R(f) ==
    /\ less(Fin(30), iloc(f.cols["RSI"], -1))
    /\ less(iloc(f.cols["RSI"], -1), Fin(70))

\* C2: a call whose indicators were built returns 40*D + 30*T + 10*E + 20*R,
\* the gates taken at the last bar of its frame with strict inequalities.
C2_ScoreFormula ==
    \A k \in Callers :
        (calls[k].pc = "done" /\ built(arg(k))) =>
            calls[k].ret = 40 * b2i(gate_D(arg(k))) + 30 * b2i(gate_T(arg(k)))
                           + 10 * b2i(gate_E(arg(k))) + 20 * b2i(gate_R(arg(k)))

\* a call returned 40 on a frame whose last RSI is exactly 70
C2_Witness ==
    /\ calls[1].pc = "done"
    /\ built(arg(1))
    /\ iloc(arg(1).cols["RSI"], -1) = Fin(70)
    /\ calls[1].ret = 40

\* C3: a call ends as every earlier call on a frame of the same bars ended
\* (the same frame object scored again, derived columns and all, or another
\* frame of equal content), whatever the scoring object was given before:
\* it ends as the call of a new scoring object on the frame as first given.
C3_Determinism ==
    \A k \in Callers :
        calls[k].pc \in {"done", "raised"} =>
            /\ \A s \in Slots :
                   (res[s] # NoResult /\ base(orig[s]) = base(orig[calls[k].df])) =>
                       outcome(calls[k]) = res[s]
            /\ outcome(calls[k]) = outcome(score(NoFrame, orig[calls[k].df]).call)

\* the frame of slot 2, scored to 100 before, is scored again with its
\* derived columns in place, the scoring object having also been given a
\* frame on which the try block failed
C3_Witness ==
    /\ calls[1].pc = "done"
    /\ calls[1].df = 2
    /\ res[2] = [kind |-> "done", val |-> 100]
    /\ calls[1].ret = 100
    /\ "price_low" \in DOMAIN heap[2].cols
    /\ res[1].kind = "done"
    /\ ~built(orig[1])
    /\ selfdf = 2

\* C4 (as claimed): with calls on different frames interleaved on one
\* scoring object, each call returns what it returns when run alone.
C4_Isolation ==
    \A k \in Callers :
        calls[k].pc \in {"done", "raised"} =>
            outcome(calls[k]) = outcome(score(NoFrame, orig[calls[k].df]).call)

\* C5: score leaves the index, the dates and the open, high, low, close and
\* volume columns of a frame as they were; it only adds derived columns.
C5_BaseUntouched ==
    \A s \in Slots :
        /\ base(heap[s]) = base(orig[s])
        /\ (DOMAIN heap[s].cols) \subseteq ((DOMAIN orig[s].cols) \cup DerivedColumns)

\* a frame that went through the whole of score and has a marked swing low
C5_Witness ==
    /\ calls[1].pc = "done"
    /\ DerivedColumns \subseteq DOMAIN arg(1).cols
    /\ \E i \in 1..nrows(arg(1)) : ~isna(arg(1).cols["price_low"][i])

\* C6 (as claimed): on a frame of 1 to 2*order bars score does not raise
\* and awards nothing for the divergence.
C6_ShortNeverRaises ==
    \A k \in Callers :
        (calls[k].pc # "idle" /\ nrows(arg(k)) \in 1..(2 * Order)) =>
            /\ calls[k].pc # "raised"
            /\ (calls[k].pc = "trend" => calls[k].score = 0)

\* close, high or low is missing (no column, or NaN at some bar)
bad_quality(f) ==
    \E c \in {"close", "high", "low"} :
        \/ ~has(f, c)
        \/ \E i \in 1..nrows(f) : ~isfinite(f.cols[c][i])

\* C7 (as claimed): score does not return normally on a frame whose close,
\* high or low is missing or not finite.
C7_DataQualityFails ==
    \A k \in Callers :
        (calls[k].pc # "idle" /\ bad_quality(arg(k))) => calls[k].pc # "done"

undefined_at_last(k, columns) ==
    \E c \in columns : isna(iloc(heap[selfdf].cols[c], -1))

C10_TrendImpliesOrder ==
    [][\A k \in Callers :
          /\ (calls[k].pc = "emaorder" /\ calls[k].score \in {30, 70})
             => calls'[k].score = calls[k].score + 10
          /\ calls'[k].pc = "done" => calls'[k].ret # 90]_vars

\* the trend and the EMA order contributions were both awarded
C10_Witness == calls[1].pc = "rsiband" /\ calls[1].score = 80

\* C8 (as claimed): when the scoring of a symbol fails, init_trade still
\* ends normally with every symbol of the list reached by the loop of
\* get_symbols, and the failed symbol is not among the symbols to trade.
C8_SkipAndContinue ==
    (it.pc \in {"returned", "failed"} /\ hist.failed # {}) =>
        /\ it.pc = "returned"
        /\ hist.attempted = {Symbols[i] : i \in 1..Len(Symbols)}
        /\ \A i \in 1..Len(it.symbolToTrade) : it.symbolToTrade[i] \notin hist.failed

\* the premises of the end-to-end scenario, read on a frame score has built
is_scenario(f) ==
    /\ nrows(f) = 120
    /\ f.index = "datetime"
    /\ DerivedColumns \subseteq DOMAIN f.cols
    /\ dropna(f, "price_low") = {30, 60}
    /\ f.cols["price_low"][31] = Fin(10)
    /\ f.cols["price_low"][61] = Fin(9)
    /\ dropna(f, "ad_low") = {30, 60}
    /\ f.cols["ad_low"][31] = Fin(100)
    /\ f.cols["ad_low"][61] = Fin(150)
    /\ less(f.cols["RSI"][60], Fin(RsiConfirm))
    /\ less(Fin(RsiConfirm), f.cols["RSI"][61])
    /\ less(iloc(f.cols["EMA50"], -1), iloc(f.cols["close"], -1))
    /\ less(iloc(f.cols["EMA200"], -1), iloc(f.cols["EMA50"], -1))
    /\ iloc(f.cols["RSI"], -1) = Fin(50)

\* C11 (as claimed): on a 120-bar frame with price swing lows 10 and 9 at
\* days 30 and 60, A/D swing lows 100 and 150 at days 30 and 60, RSI crossing
\* 40 upward at day 60, close > EMA50 > EMA200 and RSI 50 at the last bar,
\* score returns 100.
C11_Scenario ==
    \A k \in Callers :
        (calls[k].pc = "done" /\ is_scenario(arg(k))) => calls[k].ret = 100

\* C12 (as claimed): on a frame whose closes are all finite, RSI is defined
\* and lies between 0 and 100 at every bar of position 14 or more.
C12_RsiBounds ==
    \A s \in Slots :
        (/\ heap[s] # NoFrame
         /\ has(heap[s], "RSI")
         /\ \A i \in 1..nrows(heap[s]) : isfinite(heap[s].cols["close"][i])) =>
            \A i \in (RsiWindow + 1)..nrows(heap[s]) :
                LET r == heap[s].cols["RSI"][i]
                IN  /\ isfinite(r)
                    /\ less_equal(Fin(0), r)
                    /\ less_equal(r, Fin(100))

\* C13 (as claimed): a bar with high = low leaves the A/D line where it was
\* at the bar before (0 at the first bar), whatever its close and volume.
C13_ZeroRange ==
    \A s \in Slots :
        (heap[s] # NoFrame /\ has(heap[s], "AD")) =>
            \A i \in 1..nrows(heap[s]) :
                (/\ isfinite(heap[s].cols["high"][i])
                 /\ heap[s].cols["high"][i] = heap[s].cols["low"][i]) =>
                    heap[s].cols["AD"][i] =
                        (IF i = 1 THEN Fin(0) ELSE heap[s].cols["AD"][i - 1])

\* the two latest of a set of positions
latest(S) == CHOOSE x \in S : \A y \in S : y <= x

earlier(S) == latest(S \ {latest(S)})

\* the call of caller k has just been awarded the divergence
detected(k) == calls[k].pc = "trend" /\ calls[k].score = DivergencePoints

\* C14: the divergence is awarded only on a frame with at least two price
\* pivots and at least two A/D pivots whose latest price pivot is strictly
\* lower than the one before it; with equal lows it is not awarded.
C14_Strictness ==
    \A k \in Callers :
        detected(k) =>
            LET f == arg(k)
                pivots == dropna(f, "price_low")
            IN  /\ Cardinality(pivots) >= 2
                /\ Cardinality(dropna(f, "ad_low")) >= 2
                /\ less(f.cols["low"][latest(pivots) + 1],
                        f.cols["low"][earlier(pivots) + 1])

\* the divergence awarded on a frame whose swing lows are 7 and then 6
C14_Witness ==
    /\ detected(1)
    /\ dropna(arg(1), "price_low") = {9, 15}
    /\ arg(1).cols["low"][10] = Fin(7)
    /\ arg(1).cols["low"][16] = Fin(6)

\* a frame as get_historical_data returns it: at least one bar, the five
\* columns, the date an ordinary column and the rows labelled 0, 1, 2, ...
provider_shaped(f) ==
    /\ f # NoFrame
    /\ nrows(f) >= 1
    /\ f.index = "range"
    /\ BaseColumns \subseteq DOMAIN f.cols

\* C15 (as claimed): on a frame shaped as get_historical_data returns it,
\* score does not raise and returns an integer from 0 to 100, also when the
\* latest price pivot is strictly lower and two A/D pivots exist.
C15_ProviderFrames ==
    \A k \in Callers :
        (calls[k].pc # "idle" /\ provider_shaped(arg(k))) =>
            /\ calls[k].pc # "raised"
            /\ (calls[k].pc = "done" => calls[k].ret \in 0..100)

\* C16: the divergence is awarded only if at least two A/D pivots lie at
\* most max_dist calendar days before or after the date of the latest price
\* pivot, and the later of the two latest of them has a strictly higher A/D
\* value than the earlier.
C16_Candidates ==
    \A k \in Callers :
        detected(k) =>
            LET f == arg(k)
                p2 == latest(dropna(f, "price_low"))
                near == {a \in dropna(f, "ad_low") :
                            /\ f.date[a + 1] - f.date[p2 + 1] <= MaxDist
                            /\ f.date[p2 + 1] - f.date[a + 1] <= MaxDist}
            IN  /\ Cardinality(near) >= 2
                /\ less(f.cols["AD"][earlier(near) + 1], f.cols["AD"][latest(near) + 1])

\* the divergence awarded with the earlier A/D pivot exactly max_dist days
\* before the latest price pivot
C16_Witness ==
    /\ detected(1)
    /\ dropna(arg(1), "ad_low") = {9, 15}
    /\ latest(dropna(arg(1), "price_low")) = 15
    /\ arg(1).date[16] - arg(1).date[10] = MaxDist

\* C17: the divergence is awarded only if RSI is strictly below 40 at the bar
\* before the latest price pivot and strictly above 40 at that pivot; RSI
\* equal to 40 or undefined at either bar gives no award.
C17_Confirmation ==
    \A k \in Callers :
        detected(k) =>
            LET f == arg(k)
                idx == latest(dropna(f, "price_low"))
            IN  /\ idx >= 1
                /\ less(f.cols["RSI"][idx], Fin(RsiConfirm))
                /\ less(Fin(RsiConfirm), f.cols["RSI"][idx + 1])

\* the divergence awarded with RSI 0 at bar 14 and above 40 at the pivot,
\* bar 15
C17_Witness ==
    /\ detected(1)
    /\ latest(dropna(arg(1), "price_low")) = 15
    /\ arg(1).cols["RSI"][15] = Fin(0)
    /\ less(Fin(RsiConfirm), arg(1).cols["RSI"][16])

\* the divergence step of the call of caller k is over
matched(k) == calls[k].pc = "trend"

\* C18: the bar of position 0 is never a price pivot, so the confirmation
\* has a bar before the pivot to read: an award is made with idx >= 1 and
\* on the RSI of bar idx - 1, not on the RSI of the last bar.
C18_NoBarBeforeFirst ==
    \A k \in Callers :
        matched(k) =>
            LET f == arg(k)
                pivots == dropna(f, "price_low")
            IN  /\ 0 \notin pivots
                /\ detected(k) =>
                      /\ latest(pivots) >= 1
                      /\ less(f.cols["RSI"][latest(pivots)], Fin(RsiConfirm))

\* the divergence awarded on a frame whose last RSI is not below 40: the
\* value read as the previous one is the RSI of bar 14
C18_Witness ==
    /\ detected(1)
    /\ 0 \notin dropna(arg(1), "price_low")
    /\ ~less(iloc(arg(1).cols["RSI"], -1), Fin(RsiConfirm))
    /\ less(arg(1).cols["RSI"][latest(dropna(arg(1), "price_low"))], Fin(RsiConfirm))

\* the entry of position i is strictly below every other entry at most
\* Order positions away (all of them inside the column)
strict_minimum(column, i) ==
    \A j \in (i - Order)..(i + Order) :
        j # i => less(column[i + 1], column[j + 1])

\* the positions whose neighbourhood of Order entries on each side lies
\* inside a column of n entries
interior(n) == Order..(n - 1 - Order)

\* C19: a position whose whole neighbourhood lies inside the column is
\* marked as a pivot of the low, and of the A/D line, exactly when its value
\* is strictly below every other value of the neighbourhood; an equal value
\* in the neighbourhood excludes it.
C19_StrictMinima ==
    \A s \in Slots :
        (heap[s] # NoFrame /\ has(heap[s], "price_low") /\ has(heap[s], "ad_low")) =>
            \A i \in interior(nrows(heap[s])) :
                /\ i \in dropna(heap[s], "price_low")
                       <=> strict_minimum(heap[s].cols["low"], i)
                /\ i \in dropna(heap[s], "ad_low")
                       <=> strict_minimum(heap[s].cols["AD"], i)

\* a frame of 22 bars with the price pivots 9 and 15 and the A/D pivots 9
\* and 15, and a frame of 15 bars of equal lows without a pivot
C19_Witness ==
    /\ heap[1] # NoFrame /\ heap[2] # NoFrame
    /\ has(heap[1], "ad_low") /\ has(heap[2], "ad_low")
    /\ nrows(heap[1]) = 22
    /\ dropna(heap[1], "price_low") = {9, 15}
    /\ dropna(heap[1], "ad_low") = {9, 15}
    /\ base(heap[2]) = base(flat_frame)
    /\ dropna(heap[2], "price_low") = {}

\* C20 (as claimed): no position less than Order from either end of the
\* column is marked as a price pivot or as an A/D pivot.
C20_BoundaryExcluded ==
    \A s \in Slots :
        (heap[s] # NoFrame /\ has(heap[s], "price_low") /\ has(heap[s], "ad_low")) =>
            (dropna(heap[s], "price_low") \cup dropna(heap[s], "ad_low"))
                \subseteq interior(nrows(heap[s]))

\* the closes of the RsiWindow differences that end at the bar of 1-based
\* row i are finite; one of them is a gain; one of them is a loss
window_finite(f, i) ==
    \A j \in (i - RsiWindow)..i : isfinite(f.cols["close"][j])

window_gain(f, i) ==
    \E j \in (i - RsiWindow + 1)..i : less(f.cols["close"][j - 1], f.cols["close"][j])

window_loss(f, i) ==
    \E j \in (i - RsiWindow + 1)..i : less(f.cols["close"][j], f.cols["close"][j - 1])

\* C21 (as claimed): past the warm-up RSI is 0 at a bar whose window holds
\* no gain and 100 at a bar whose window holds gains and no loss; it is
\* undefined in neither case.
C21_RsiEdgePolicy ==
    \A s \in Slots :
        (heap[s] # NoFrame /\ has(heap[s], "RSI") /\ has(heap[s], "close")) =>
            \A i \in (RsiWindow + 1)..nrows(heap[s]) :
                window_finite(heap[s], i) =>
                    /\ ~window_gain(heap[s], i) => heap[s].cols["RSI"][i] = Fin(0)
                    /\ (window_gain(heap[s], i) /\ ~window_loss(heap[s], i)) =>
                           heap[s].cols["RSI"][i] = Fin(100)

\* every close of the frame is finite
finite_closes(f) ==
    has(f, "close") /\ \A i \in 1..nrows(f) : isfinite(f.cols["close"][i])

\* the column ema of f starts at the first close and at each later bar is
\* a*close + (1-a)*(its value at the bar before), a = 2/(span+1), to within
\* half a unit of the grid the averages are kept on
follows_recursion(f, ema, span) ==
    \A t \in 1..nrows(f) :
        /\ isfinite(f.cols[ema][t])
        /\ IF t = 1 THEN f.cols[ema][1] = f.cols["close"][1]
           ELSE 2 * Abs((span + 1) * togrid(f.cols[ema][t])
                        - 2 * togrid(f.cols["close"][t])
                        - (span - 1) * togrid(f.cols[ema][t - 1])) <= span + 1

\* C22: on a frame of finite closes EMA50 and EMA200 are defined at every
\* bar, equal the close at bar 0 and follow EMA_t = a*close_t +
\* (1-a)*EMA_(t-1) with a = 2/(span+1) after it; a frame of one bar scores 0.
C22_EmaFromFirstBar ==
    /\ \A s \in Slots :
          (heap[s] # NoFrame /\ finite_closes(heap[s])
              /\ has(heap[s], "EMA50") /\ has(heap[s], "EMA200")) =>
                 /\ follows_recursion(heap[s], "EMA50", FastSpan)
                 /\ follows_recursion(heap[s], "EMA200", SlowSpan)
    /\ \A k \in Callers :
          (calls[k].pc = "done" /\ nrows(arg(k)) = 1 /\ finite_closes(arg(k))) =>
              calls[k].ret = 0

\* a frame of 22 bars whose averages have moved off the first close, and a
\* call that has returned on a frame of one bar with both averages defined
C22_Witness ==
    /\ heap[1] # NoFrame /\ has(heap[1], "EMA200") /\ nrows(heap[1]) = 22
    /\ heap[1].cols["EMA50"][22] # heap[1].cols["EMA200"][22]
    /\ calls[1].pc = "done" /\ calls[1].df = 2
    /\ nrows(heap[2]) = 1 /\ finite_closes(heap[2])
    /\ isfinite(heap[2].cols["EMA50"][1]) /\ isfinite(heap[2].cols["EMA200"][1])

\* C23 (as claimed): the list get_symbols returns holds exactly the symbols
\* of this call that had data and scored the threshold or more, each once,
\* whatever earlier calls appended.
C23_ReturnsThisCall ==
    gs.pc = "returned" =>
        /\ {symbolsToTrade[i] : i \in 1..Len(symbolsToTrade)} = hist.qualified
        /\ \A i, j \in 1..Len(symbolsToTrade) :
               symbolsToTrade[i] = symbolsToTrade[j] => i = j

\* C24 (as claimed): when init_trade has ended, normally or through its
\* except clause, the provider of Trading and the provider get_symbols
\* connected are both disconnected.
C24_DisconnectedAtEnd ==
    it.pc \in {"returned", "failed"} =>
        /\ ~connected["trading"]
        /\ ~connected["strategy"]

\* C25: the divergence is awarded only with the latest price pivot at a
\* position from RsiWindow + 1 to n - 2, so never on a frame of 16 bars or
\* fewer.
C25_PivotPosition ==
    \A k \in Callers :
        detected(k) =>
            LET idx == latest(dropna(arg(k), "price_low"))
            IN  /\ idx >= RsiWindow + 1
                /\ idx <= nrows(arg(k)) - 2
                /\ nrows(arg(k)) > RsiWindow + 2

\* the divergence awarded with the pivot at the first position it can have
C25_Witness ==
    /\ detected(1)
    /\ latest(dropna(arg(1), "price_low")) = RsiWindow + 1
    /\ isna(arg(1).cols["RSI"][RsiWindow])

\* the positions of S are at least Order + 1 apart and are neither the first
\* nor the last of n
spaced(S, n) ==
    /\ \A i, j \in S : i # j => Abs(i - j) >= Order + 1
    /\ 0 \notin S
    /\ (n - 1) \notin S

\* C29: two price pivots, and two A/D pivots, of a frame are at least
\* order + 1 = 6 positions apart, and neither the first nor the last bar is
\* a pivot.
C29_PivotSpacing ==
    \A s \in Slots :
        (heap[s] # NoFrame /\ has(heap[s], "price_low") /\ has(heap[s], "ad_low")) =>
            /\ spaced(dropna(heap[s], "price_low"), nrows(heap[s]))
            /\ spaced(dropna(heap[s], "ad_low"), nrows(heap[s]))

\* a frame of 10 bars with price pivots and A/D pivots exactly 6 apart
C29_Witness ==
    /\ heap[2] # NoFrame /\ has(heap[2], "ad_low")
    /\ nrows(heap[2]) = 10
    /\ dropna(heap[2], "price_low") = {2, 8}
    /\ dropna(heap[2], "ad_low") = {2, 8}

\* C26 (as claimed): when save_historical_data has returned True, every
\* bar of the frame is a row of historical_data for its symbol and source.
C26_SavedWhenTrue ==
    db.ret = "True" =>
        \A i \in 1..Len(db.call.stamps) :
            [symbol |-> db.call.symbol, date |-> strftime(db.call.stamps[i]),
             source |-> db.call.source] \in db.historical_data

\* C27: once a get_historical_data call has returned, history_buf,
\* history_done and req_map hold no entry for its request id, in every later
\* state, also when historicalData or historicalDataEnd callbacks for that id
\* are delivered afterwards (an id that a running call holds again is left
\* out: its entries are that call's own).
C27_NoEntryAfterReturn ==
    \A id \in iblog.returned :
        \/ caller.pc \in {"wait", "collect"} /\ caller.kind = "hist"
              /\ caller.req_id = id
        \/ /\ id \notin DOMAIN ib.history_buf
           /\ id \notin DOMAIN ib.history_done
           /\ id \notin DOMAIN ib.req_map

\* C28: get_scanner_results returns at most max_results rows, and only rows
\* that scannerData delivered for the request id issued by that same call.
C28_OwnRowsOnly ==
    /\ Len(iblog.scan.rows) <= MaxResults
    /\ \A i \in 1..Len(iblog.scan.rows) : iblog.scan.rows[i] = iblog.scan.req_id

\* C30: the request ids issued by the successive calls of the caller thread
\* are strictly increasing (hence pairwise distinct), also when nextValidId
\* runs on the reader thread between or during the calls.
C30_IdsIncreasing ==
    \A i, j \in 1..Len(iblog.issued) : i < j => iblog.issued[i] < iblog.issued[j]

====
